---- MODULE Spec2Model ----
(***************************************************************************)
(* A model of the oscd-subscriber-lb-siemens plugin: the two window        *)
(* listeners it registers for 'oscd-edit', the snapshot buffer they share, *)
(* and the matching functions that decide which further subscribe and      *)
(* unsubscribe edits the plugin dispatches.                                *)
(*                                                                         *)
(* Representation.  A string is a sequence of one-character strings, so    *)
(* that split, slice, concatenation and parseInt are computed as the code  *)
(* computes them.  The result of getAttribute is Null (no attribute) or    *)
(* Some(s).  An element is named by its position in document order (0 is   *)
(* "no element"); an element's attributes are a record with one field per  *)
(* attribute name the code reads.                                          *)
(***************************************************************************)
EXTENDS Integers, Sequences, FiniteSets, TLC

VARIABLES
    fx,             \* which document (of Fixtures) is open: this.doc, its fixed part
    refs,           \* the live attributes of every ExtRef of the document
    enabled,        \* this.enabled
    preEventExtRef, \* this.preEventExtRef: the snapshot buffer
    ignoreSupervision, \* this.ignoreSupervision
    phase,          \* position in the dispatch of the current 'oscd-edit' event
    event,          \* the event being dispatched: initiating target and detail
    intents,        \* the edit events the plugin dispatched in the current cycle
    raised,         \* a listener of the current cycle threw
    calls,          \* history: the Resolver's invocations in the current cycle
    matched,        \* history: the calls of matchFCDAsToExtRefs in the current cycle
    reentered,      \* history: a listener accepted an event the plugin dispatched
    startRefs,      \* history: refs when the current cycle's event was dispatched
    leftover,       \* history: the buffer was not empty when it was dispatched
    args,           \* the arguments of a matching function applied on its own
    result          \* what it returned

vars == <<fx, refs, enabled, preEventExtRef, ignoreSupervision, phase, event,
          intents, raised, calls, matched, reentered, startRefs, leftover,
          args, result>>

-----------------------------------------------------------------------------
(* Strings and optional values                                             *)

Null == <<>>
Some(v) == <<v>>
IsNull(m) == m = Null
Val(m) == m[1]
\* JavaScript's  m ?? d
Coalesce(m, d) == IF m = Null THEN d ELSE m[1]

Last(s) == s[Len(s)]
\* Array.prototype.slice(0, length - 1)
ButLast(s) == SubSeq(s, 1, Len(s) - 1)

RECURSIVE SplitAcc(_, _, _, _)
SplitAcc(s, sep, done, cur) ==
    IF s = <<>> THEN Append(done, cur)
    ELSE IF Head(s) = sep THEN SplitAcc(Tail(s), sep, Append(done, cur), <<>>)
    ELSE SplitAcc(Tail(s), sep, done, Append(cur, Head(s)))

\* String.prototype.split(sep) for a one-character separator: always at
\* least one part, the parts are strings
Split(s, sep) == SplitAcc(s, sep, <<>>, <<>>)

\* String.prototype.slice(-1): the last character as a string, '' of ''
SliceLast(s) == IF s = <<>> THEN <<>> ELSE <<Last(s)>>

RECURSIVE JoinQuoted(_)
JoinQuoted(parts) ==
    IF parts = <<>> THEN <<>>
    ELSE <<"\"">> \o Head(parts) \o <<"\"">>
         \o (IF Len(parts) > 1 THEN <<",">> ELSE <<>>)
         \o JoinQuoted(Tail(parts))

\* JSON.stringify of an array of strings (the alphabet of the model has no
\* character that JSON escapes)
JSONstringify(parts) == <<"[">> \o JoinQuoted(parts) \o <<"]">>

Digits == <<"0", "1", "2", "3", "4", "5", "6", "7", "8", "9">>
IsDigit(c) == \E d \in 1..10 : Digits[d] = c
DigitVal(c) == (CHOOSE d \in 1..10 : Digits[d] = c) - 1

RECURSIVE ParseDigits(_, _)
ParseDigits(s, acc) ==
    IF s = <<>> \/ ~IsDigit(Head(s)) THEN acc
    ELSE ParseDigits(Tail(s), acc * 10 + DigitVal(Head(s)))

NaN == Null
\* parseInt(s, 10): an optional sign, then the leading digits; NaN when
\* there is no digit.  (The model's alphabet has no white space.)
parseInt(s) ==
    LET neg  == s # <<>> /\ Head(s) = "-"
        body == IF s # <<>> /\ Head(s) \in {"-", "+"} THEN Tail(s) ELSE s
    IN  IF body = <<>> \/ ~IsDigit(Head(body)) THEN NaN
        ELSE Some((IF neg THEN -1 ELSE 1) * ParseDigits(body, 0))

\* JavaScript's  a < b  on numbers: false when either is NaN
NumLess(a, b) == a # NaN /\ b # NaN /\ Val(a) < Val(b)

\* String literals of the code and of the documents
s_q == <<"q">>
s_MX == <<"M", "X">>
s_SIEMENS == <<"S", "I", "E", "M", "E", "N", "S">>
s_NONE == <<"N", "O", "N", "E">>
s_GOOSE == <<"G", "O", "O", "S", "E">>
s_SMV == <<"S", "M", "V">>
s_Report == <<"R", "e", "p", "o", "r", "t">>
s_LLN0 == <<"L", "L", "N", "0">>

-----------------------------------------------------------------------------
(* Elements                                                                *)
(*                                                                         *)
(* The fixed part of a document D (nothing the plugin or the edits of the  *)
(* model change):                                                          *)
(*   D.manufacturer  manufacturer attribute of the IED holding the ExtRefs *)
(*   D.lns           the logical nodes of that IED, in document order:     *)
(*                   [tag, lnClass, ld]; ld numbers the enclosing LDevice, *)
(*                   0 when there is none                                  *)
(*   D.refLn         for each ExtRef (document order) its logical node     *)
(*   D.refInit       the ExtRefs' attributes when the document is opened   *)
(*   D.iedName       name attribute of the publishing IED                  *)
(*   D.pubLns        its logical nodes: [tag, lnClass, inst, prefix, ldInst]*)
(*   D.dataSets      its DataSets, document order: [name, ln]              *)
(*   D.fcdas         its FCDAs, document order: their attributes           *)
(*   D.fcdaDs        for each FCDA its DataSet                             *)
(*   D.cbs           its control blocks: [tag, ln, name, datSet]           *)
(* The ExtRefs' attributes change; R below is their current value.         *)

NoElement == 0

FcdaAttrs == {"ldInst", "prefix", "lnClass", "lnInst", "doName", "daName", "fc"}
ExtRefAttrs == {"intAddr", "desc", "iedName", "ldInst", "prefix", "lnClass",
                "lnInst", "doName", "daName", "serviceType", "srcLDInst",
                "srcPrefix", "srcLNClass", "srcLNInst", "srcCBName"}

\* Element.getAttribute / Element.hasAttribute on an attribute record
getAttribute(e, a) == e[a]
hasAttribute(e, a) == e[a] # Null

\* ExtRef.nextElementSibling: the children of an Inputs element are its ExtRefs
NextExtRef(D, r) ==
    IF r + 1 <= Len(D.refLn) /\ D.refLn[r + 1] = D.refLn[r] THEN r + 1 ELSE NoElement

\* FCDA.nextElementSibling: the children of a DataSet are its FCDAs
NextFcda(D, f) ==
    IF f + 1 <= Len(D.fcdas) /\ D.fcdaDs[f + 1] = D.fcdaDs[f] THEN f + 1 ELSE NoElement

\* Node.compareDocumentPosition(other) for two ExtRefs of one document:
\* 2 (PRECEDING) when other comes first, 4 (FOLLOWING) when it comes later,
\* 0 for the node itself
DOCUMENT_POSITION_PRECEDING == 2

\* compareDocumentPosition_Swapped: the position of node seen from other
compareDocumentPosition_Swapped(node, other) ==
    IF node < other THEN DOCUMENT_POSITION_PRECEDING
    ELSE IF node > other THEN 4
    ELSE 0

compareDocumentPosition(node, other) ==
    IF other < node THEN DOCUMENT_POSITION_PRECEDING
    ELSE IF other > node THEN 4
    ELSE 0

\* Array.prototype.filter / slice(0, n) on sequences
FilterSeq(s, P(_)) ==
    LET F[i \in 0..Len(s)] ==
          IF i = 0 THEN <<>>
          ELSE F[i - 1] \o (IF P(s[i]) THEN <<s[i]>> ELSE <<>>)
    IN  F[Len(s)]

\* Take_All: the list is not cut
Take_All(s, n) == s

\* s.slice(0, n), n not negative
Take(s, n) == SubSeq(s, 1, IF n < Len(s) THEN n ELSE Len(s))

Range(s) == {s[i] : i \in DOMAIN s}
Ids(s) == [i \in 1..Len(s) |-> i]

-----------------------------------------------------------------------------
(* foundation/subscription/subscription.ts                                 *)


\* isSubscribed_DoNameOnly: only the last of the five attributes is tested
isSubscribed_DoNameOnly(extRefElement) == hasAttribute(extRefElement, "doName")

isSubscribed(extRefElement) ==
    /\ hasAttribute(extRefElement, "iedName")
    /\ hasAttribute(extRefElement, "ldInst")
    /\ hasAttribute(extRefElement, "lnClass")
    /\ hasAttribute(extRefElement, "lnInst")
    /\ hasAttribute(extRefElement, "doName")

\* findFCDAs for an ExtRef element outside Private: the FCDAs of the IED
\* named by iedName that agree with the ExtRef on six attributes, a missing
\* attribute counting as ''
findFCDAs(D, extRef) ==
    IF getAttribute(extRef, "iedName") # Some(D.iedName) THEN <<>>
    ELSE FilterSeq(Ids(D.fcdas),
           LAMBDA f :
             \A a \in {"ldInst", "prefix", "lnClass", "lnInst", "doName", "daName"} :
               Coalesce(getAttribute(D.fcdas[f], a), <<>>)
                 = Coalesce(getAttribute(extRef, a), <<>>))

s_toString == <<"t", "o", "S", "t", "r", "i", "n", "g">>
s___proto__ == <<"_", "_", "p", "r", "o", "t", "o", "_", "_">>

\* The functions every object literal inherits from Object.prototype
ObjectPrototypeFunctions ==
    { <<"c", "o", "n", "s", "t", "r", "u", "c", "t", "o", "r">>,
      <<"h", "a", "s", "O", "w", "n", "P", "r", "o", "p", "e", "r", "t", "y">>,
      <<"i", "s", "P", "r", "o", "t", "o", "t", "y", "p", "e", "O", "f">>,
      <<"p", "r", "o", "p", "e", "r", "t", "y", "I", "s", "E", "n", "u", "m", "e", "r", "a", "b", "l", "e">>,
      <<"t", "o", "L", "o", "c", "a", "l", "e", "S", "t", "r", "i", "n", "g">>,
      <<"t", "o", "S", "t", "r", "i", "n", "g">>,
      <<"v", "a", "l", "u", "e", "O", "f">>,
      <<"_", "_", "d", "e", "f", "i", "n", "e", "G", "e", "t", "t", "e", "r", "_", "_">>,
      <<"_", "_", "d", "e", "f", "i", "n", "e", "S", "e", "t", "t", "e", "r", "_", "_">>,
      <<"_", "_", "l", "o", "o", "k", "u", "p", "G", "e", "t", "t", "e", "r", "_", "_">>,
      <<"_", "_", "l", "o", "o", "k", "u", "p", "S", "e", "t", "t", "e", "r", "_", "_">> }

\* The table is an object literal: a key that names an inherited member
\* yields that member, which is not nullish and not an array
InheritedMember(key) == key \in ObjectPrototypeFunctions \cup {s___proto__}

\* serviceTypeControlBlockTags[serviceType] ?? []
serviceTypeControlBlockTags(serviceType) ==
    IF serviceType = s_GOOSE THEN <<"GSEControl">>
    ELSE IF serviceType = s_SMV THEN <<"SampledValueControl">>
    ELSE IF serviceType = s_Report THEN <<"ReportControl">>
    ELSE IF serviceType = s_NONE
      THEN <<"LogControl", "GSEControl", "SampledValueControl", "ReportControl">>
    ELSE IF serviceType \in ObjectPrototypeFunctions THEN [notAnArray |-> "function"]
    ELSE IF serviceType = s___proto__ THEN [notAnArray |-> "object"]
    ELSE <<>>

\* cbTags is not an array: cbTags.flatMap is not a function
cbTagsNotAnArray(extRef) ==
    InheritedMember(Coalesce(getAttribute(extRef, "serviceType"), s_NONE))

\* The filter of findControlBlock applied to control block cb
ControlBlockMatches(D, extRef, cb, dsName) ==
    IF Coalesce(getAttribute(extRef, "srcCBName"), <<>>) # <<>>
    THEN LET ln == D.pubLns[D.cbs[cb].ln]
         IN /\ getAttribute(extRef, "srcCBName") = D.cbs[cb].name
            /\ Some(Coalesce(getAttribute(extRef, "srcLNInst"), <<>>)) = ln.inst
            /\ Some(Coalesce(getAttribute(extRef, "srcLNClass"), s_LLN0)) = ln.lnClass
            /\ Coalesce(getAttribute(extRef, "srcPrefix"), <<>>) = Coalesce(ln.prefix, <<>>)
            /\ (IF hasAttribute(extRef, "srcLDInst")
                  THEN getAttribute(extRef, "srcLDInst")
                  ELSE getAttribute(extRef, "ldInst")) = ln.ldInst
    ELSE D.cbs[cb].datSet = Some(dsName)

\* The control blocks findControlBlock visits for one FCDA: for every tag of
\* the service type, those of that tag in the logical node of the DataSet
ControlBlockCandidates(D, extRef, f) ==
    LET anyLN  == D.dataSets[D.fcdaDs[f]].ln
        cbTags == serviceTypeControlBlockTags(
                      Coalesce(getAttribute(extRef, "serviceType"), s_NONE))
        OfTag(i) == FilterSeq(Ids(D.cbs),
                      LAMBDA cb : D.cbs[cb].ln = anyLN /\ D.cbs[cb].tag = cbTags[i])
        Cat[i \in 0..Len(cbTags)] == IF i = 0 THEN <<>> ELSE Cat[i - 1] \o OfTag(i)
    IN  Cat[Len(cbTags)]

\* findControlBlock throws, for the first FCDA it visits, when cbTags is not
\* an array (cbTags.flatMap is not a function); and for a control block of
\* an LN, where cb.closest('LN0')! is null and reading its attribute throws
findControlBlockThrows(D, extRef) ==
    IF cbTagsNotAnArray(extRef) THEN findFCDAs(D, extRef) # <<>>
    ELSE
      /\ Coalesce(getAttribute(extRef, "srcCBName"), <<>>) # <<>>
      /\ \E f \in Range(findFCDAs(D, extRef)) :
           \E cb \in Range(ControlBlockCandidates(D, extRef, f)) :
              D.pubLns[D.cbs[cb].ln].tag # "LN0"

\* findControlBlock: the first control block that passes, NoElement
\* (undefined) when none does
findControlBlock(D, extRef) ==
    LET fcdas == findFCDAs(D, extRef)
        Of(f) == FilterSeq(ControlBlockCandidates(D, extRef, f),
                   LAMBDA cb : ControlBlockMatches(D, extRef, cb,
                       Coalesce(D.dataSets[D.fcdaDs[f]].name, <<>>)))
        All[i \in 0..Len(fcdas)] == IF i = 0 THEN <<>> ELSE All[i - 1] \o Of(fcdas[i])
    IN  IF fcdas = <<>> THEN NoElement
        ELSE IF All[Len(fcdas)] = <<>> THEN NoElement ELSE All[Len(fcdas)][1]

-----------------------------------------------------------------------------
(* oscd-subscriber-lb-siemens.ts: the matching functions                   *)

\* isfcdaPairWithQuality_NoInst: lnInst left out of the compared attributes
isfcdaPairWithQuality_NoInst(a, b) ==
    \A attr \in {"ldInst", "prefix", "lnClass", "doName", "daName"} :
       \/ getAttribute(a, attr) = getAttribute(b, attr)
       \/ /\ attr = "daName"
          /\ getAttribute(b, "daName") # Null
          /\ Last(Split(Val(getAttribute(b, "daName")), ".")) = s_q

isfcdaPairWithQuality(a, b) ==
    \A attr \in {"ldInst", "prefix", "lnClass", "lnInst", "doName", "daName"} :
       \/ getAttribute(a, attr) = getAttribute(b, attr)
       \/ /\ attr = "daName"
          /\ getAttribute(b, "daName") # Null
          /\ Last(Split(Val(getAttribute(b, "daName")), ".")) = s_q

extRefMatchSiemens(a, b) ==
    IF getAttribute(a, "intAddr") = Null \/ getAttribute(b, "intAddr") = Null
    THEN FALSE
    ELSE LET aParts == Split(Val(getAttribute(a, "intAddr")), "/")
             bParts == Split(Val(getAttribute(b, "intAddr")), "/")
         IN  /\ JSONstringify(ButLast(aParts)) = JSONstringify(ButLast(bParts))
             /\ SliceLast(Last(bParts)) = s_q

\* getNextSiblings_All: every following sibling, whatever n
RECURSIVE getNextSiblings_All(_, _, _)
getNextSiblings_All(D, element, n) ==
    IF NextFcda(D, element) = NoElement THEN <<>>
    ELSE <<NextFcda(D, element)>> \o getNextSiblings_All(D, NextFcda(D, element), n)

RECURSIVE getNextSiblings(_, _, _)
getNextSiblings(D, element, n) ==
    IF n <= 0 \/ NextFcda(D, element) = NoElement THEN <<>>
    ELSE <<NextFcda(D, element)>> \o getNextSiblings(D, NextFcda(D, element), n - 1)

\* The width of the window svOrderedFCDAs examines after the first FCDA
SvSiblings == 7

\* The test of an odd index: currentDaName !== 'q'
notQuality_Never(currentDaName) == FALSE

notQuality(currentDaName) == currentDaName # Some(s_q)

\* The body of the loop of svOrderedFCDAs from index i (0-based) on, with
\* the loop's variables in v
RECURSIVE svLoop(_, _, _, _)
svLoop(D, fcdas, i, v) ==
    IF ~(i < Len(fcdas)) THEN v.count
    ELSE
      LET fcda           == D.fcdas[fcdas[i + 1]]
          currentLdInst  == getAttribute(fcda, "ldInst")
          currentLnClass == getAttribute(fcda, "lnClass")
          currentDoName  == getAttribute(fcda, "doName")
          currentDaName  == getAttribute(fcda, "daName")
          currentFc      == getAttribute(fcda, "fc")
          currentInst    == parseInt(Coalesce(getAttribute(fcda, "lnInst"), <<>>))
          v1 == IF i = 0
                  THEN [v EXCEPT !.ldInst = currentLdInst, !.lnClass = currentLnClass,
                                 !.doName = currentDoName, !.daName = currentDaName,
                                 !.inst = currentInst]
                  ELSE v
      IN  IF \/ currentLdInst # v1.ldInst
             \/ currentLnClass # v1.lnClass
             \/ currentDoName # v1.doName
             \/ currentFc # Some(s_MX)
             \/ NumLess(currentInst, v1.inst)
          THEN v1.count
          ELSE IF i % 2 = 0
            THEN svLoop(D, fcdas, i + 1,
                        [v1 EXCEPT !.daName = currentDaName, !.count = v1.count + 1])
            ELSE IF notQuality(currentDaName) THEN v1.count
            ELSE svLoop(D, fcdas, i + 1, [v1 EXCEPT !.count = v1.count + 1])

svOrderedFCDAs(D, firstFcda) ==
    svLoop(D, <<firstFcda>> \o getNextSiblings(D, firstFcda, SvSiblings), 0,
           [ldInst |-> Null, lnClass |-> Null, doName |-> Null, daName |-> Null,
            inst |-> NaN, count |-> 0])

\* A value in a template literal: null prints as the text null
s_null == <<"n", "u", "l", "l">>
Interpolate(m) == IF m = Null THEN s_null ELSE Val(m)

\* extRef.closest('LN'): the enclosing LN element, none for an ExtRef of LN0
ClosestLN(D, r) == IF D.lns[D.refLn[r]].tag = "LN" THEN D.refLn[r] ELSE NoElement
\* extRef.closest('LDevice')
ClosestLDevice(D, r) == D.lns[D.refLn[r]].ld

\* matchFCDAsToExtRefs throws when an ExtRef it visits has no enclosing LN
\* (closest('LN')! is null) or, having passed the first test, no FCDA at its
\* index
matchFCDAsToExtRefsThrows(D, R, fcdas, extRefs) ==
    \E idx \in 1..Len(extRefs) :
       \/ ClosestLN(D, extRefs[idx]) = NoElement
       \/ /\ getAttribute(R[extRefs[idx]], "intAddr") # Null
          /\ D.lns[ClosestLN(D, extRefs[idx])].lnClass # Null
          /\ idx > Len(fcdas)

\* One pass of the loop of matchFCDAsToExtRefs: does index idx (1-based
\* here) contribute a pair
matchesAt(D, R, fcdas, extRefs, idx) ==
    LET fcda          == D.fcdas[fcdas[idx]]
        extRef        == R[extRefs[idx]]
        extRefIntAddr == getAttribute(extRef, "intAddr")
        extRefLnClass == D.lns[ClosestLN(D, extRefs[idx])].lnClass
        subscriptionStatus == isSubscribed(extRef) \/ idx = 1
    IN  /\ extRefIntAddr # Null
        /\ extRefLnClass # Null
        /\ LET fcdaIntAddr ==
                 Interpolate(getAttribute(fcda, "doName")) \o <<";">>
                   \o Interpolate(getAttribute(fcda, "lnClass")) \o <<"/">>
                   \o Interpolate(getAttribute(fcda, "doName")) \o <<"/">>
                   \o Interpolate(getAttribute(fcda, "daName"))
           IN  /\ Val(extRefIntAddr) = fcdaIntAddr
               /\ extRefLnClass = getAttribute(fcda, "lnClass")
               /\ (isSubscribed(extRef) \/ idx = 1) = subscriptionStatus

\* matchFCDAsToExtRefs, when it does not throw: the pairs <<fcda, extRef>>
matchFCDAsToExtRefs(D, R, fcdas, extRefs) ==
    LET M[idx \in 0..Len(extRefs)] ==
          IF idx = 0 THEN <<>>
          ELSE M[idx - 1] \o (IF matchesAt(D, R, fcdas, extRefs, idx)
                                THEN <<<<fcdas[idx], extRefs[idx]>>>> ELSE <<>>)
    IN  M[Len(extRefs)]

LaterBindingIdentity == "danyill.oscd-subscriber-later-binding"

\* shouldListen_AnyElement: any element's events are listened to
shouldListen_AnyElement(target) == target.isElement

\* shouldListen_NoAllow: the allowexternalplugins attribute is not tested
shouldListen_NoAllow(target) ==
    /\ target.isElement
    /\ target.identity = Some(LaterBindingIdentity)

\* shouldListen(event), on the event's initiating target composedPath()[0]
shouldListen(target) ==
    /\ target.isElement
    /\ target.identity = Some(LaterBindingIdentity)
    /\ target.allowexternalplugins

-----------------------------------------------------------------------------
(* The host: edits, events, and what applying an edit does                 *)

\* An edit record of open-scd-core: an Update has element and attributes
isUpdate(edit) == edit.kind = "Update"

\* [event.detail].flat(Infinity): detail is an edit or an array, nested to
\* any depth, of edits
RECURSIVE flat(_)
flat(x) ==
    IF x.type = "array"
    THEN LET F[i \in 0..Len(x.items)] ==
               IF i = 0 THEN <<>> ELSE F[i - 1] \o flat(x.items[i])
         IN  F[Len(x.items)]
    ELSE <<x>>

Array(items) == [type |-> "array", items |-> items]

\* The editor applies an Update: every attribute it names is set, or removed
\* when its value is null; other edits of the model leave the ExtRefs alone
ApplyEdit(R, edit) ==
    IF isUpdate(edit) /\ edit.tagName = "ExtRef"
    THEN [R EXCEPT ![edit.element] =
            [a \in ExtRefAttrs |->
               IF a \in DOMAIN edit.attributes THEN edit.attributes[a] ELSE @[a]]]
    ELSE R

RECURSIVE ApplyEdits(_, _)
ApplyEdits(R, edits) ==
    IF edits = <<>> THEN R ELSE ApplyEdits(ApplyEdit(R, Head(edits)), Tail(edits))

ServiceTypeOf(tag) ==
    IF tag = "GSEControl" THEN Some(s_GOOSE)
    ELSE IF tag = "SampledValueControl" THEN Some(s_SMV)
    ELSE IF tag = "ReportControl" THEN Some(s_Report)
    ELSE Null

\* The attributes scl-lib's subscribe writes on the sink
SubscribeAttributes(D, fcda, controlBlock) ==
    LET f == D.fcdas[fcda]
        bound == [iedName |-> Some(D.iedName), ldInst |-> f.ldInst,
                  prefix |-> f.prefix, lnClass |-> f.lnClass, lnInst |-> f.lnInst,
                  doName |-> f.doName, daName |-> f.daName]
    IN  IF controlBlock = NoElement
        THEN bound @@ [serviceType |-> Null, srcLDInst |-> Null, srcPrefix |-> Null,
                       srcLNClass |-> Null, srcLNInst |-> Null, srcCBName |-> Null]
        ELSE LET cb == D.cbs[controlBlock]
                 ln == D.pubLns[cb.ln]
             IN  bound @@ [serviceType |-> ServiceTypeOf(cb.tag),
                           srcLDInst |-> ln.ldInst,
                           srcPrefix |-> Some(Coalesce(ln.prefix, <<>>)),
                           srcLNClass |-> ln.lnClass, srcLNInst |-> ln.inst,
                           srcCBName |-> cb.name]

\* The attributes scl-lib's unsubscribe removes from a later-binding ExtRef
UnsubscribeAttributes ==
    [a \in {"iedName", "ldInst", "prefix", "lnClass", "lnInst", "doName", "daName",
            "serviceType", "srcLDInst", "srcPrefix", "srcLNClass", "srcLNInst",
            "srcCBName"} |-> Null]

Update(element, attributes) ==
    [type |-> "edit", kind |-> "Update", tagName |-> "ExtRef",
     element |-> element, attributes |-> attributes]

\* The edit of an EditIntent, as the editor applies it
IntentEdit(D, intent) ==
    IF intent.kind = "subscribe"
    THEN Update(intent.sink, SubscribeAttributes(D, intent.fcda, intent.controlBlock))
    ELSE Update(intent.sink, UnsubscribeAttributes)

-----------------------------------------------------------------------------
(* oscd-subscriber-lb-siemens.ts: the plugin                               *)
(*                                                                         *)
(* The operators below thread a record s through the code of one listener: *)
(*   s.refs     the ExtRefs' attributes (the editor applies every edit     *)
(*              event the plugin dispatches before dispatchEvent returns)  *)
(*   s.out      the edit events dispatched so far                          *)
(*   s.calls    history: the invocations of processSiemensExtRef so far,   *)
(*              each with its arguments and the live ExtRef's attributes   *)
(*   s.matched  history: the calls of matchFCDAsToExtRefs so far, each     *)
(*              with its arguments, the subscription status of every       *)
(*              candidate, and the pairs returned                          *)
(*   s.reentered  history: a window listener accepted an event the plugin  *)
(*              dispatched itself                                          *)
(*   s.err      an exception was thrown: the rest of the listener is       *)
(*              skipped                                                    *)

\* The plugin's own element, the initiating target of the events it dispatches
Self == [isElement |-> TRUE, identity |-> Null, allowexternalplugins |-> FALSE,
         ignoresupervision |-> FALSE]

NoSnapshot == [none |-> TRUE]

\* this.doc.importNode(element, true): a detached copy of the element and
\* of its attributes at this moment
importNode(R, element) == [node |-> R[element], of |-> element, fresh |-> TRUE]

\* this.dispatchEvent(newEditEvent(...)): the event reaches the editor, which
\* applies it, and the two window listeners, which ignore it unless
\* shouldListen holds of the plugin's own element
dispatchEvent(D, s, intent) ==
    [s EXCEPT !.out = Append(@, intent),
              !.refs = ApplyEdit(@, IntentEdit(D, intent)),
              !.reentered = @ \/ shouldListen(Self)]

Throw(s) == [s EXCEPT !.err = TRUE]

\* wasSubscribed = preEventExtRef && isSubscribed(preEventExtRef)
wasSubscribed(pre) == pre # NoSnapshot /\ isSubscribed(pre.node)

\* The guard of both subscribe dispatches
subscribeGuard_NoTransition(was, firstExtRef, controlBlock) ==
    isSubscribed(firstExtRef) /\ controlBlock # NoElement

subscribeGuard_NoControlBlock(was, firstExtRef, controlBlock) ==
    ~was /\ isSubscribed(firstExtRef)

subscribeGuard(was, firstExtRef, controlBlock) ==
    ~was /\ isSubscribed(firstExtRef) /\ controlBlock # NoElement

\* The guard of both unsubscribe dispatches
unsubscribeGuard_Swapped(was, firstExtRef) == ~was /\ isSubscribed(firstExtRef)

unsubscribeGuard(was, firstExtRef) == was /\ ~isSubscribed(firstExtRef)

Intent(kind, path, ctx, sink, fcda, controlBlock, options) ==
    [kind |-> kind, path |-> path, index |-> ctx.index, trigger |-> ctx.element,
     sink |-> sink, fcda |-> fcda, controlBlock |-> controlBlock,
     options |-> options]

\* The subscribe of modifyValueAndQualityPair: the next ExtRef is bound to
\* the next FCDA
vqSubscribe(ctx, firstFcda, nextFcda, nextExtRef, controlBlock) ==
    Intent("subscribe", "vq", ctx, nextExtRef, nextFcda, controlBlock, Null)

\* ctx: [index, element, pre, ignoreSupervision] of the edit being processed
modifyValueAndQualityPair(D, s, ctx, firstFcda) ==
    IF findControlBlockThrows(D, s.refs[ctx.element]) THEN Throw(s)
    ELSE
      LET firstExtRef  == ctx.element
          controlBlock == findControlBlock(D, s.refs[firstExtRef])
          nextFcda     == NextFcda(D, firstFcda)
          nextExtRef   == NextExtRef(D, firstExtRef)
      IN  IF nextFcda = NoElement \/ nextExtRef = NoElement THEN s
          ELSE IF /\ extRefMatchSiemens(s.refs[firstExtRef], s.refs[nextExtRef])
                  /\ isfcdaPairWithQuality(D.fcdas[firstFcda], D.fcdas[nextFcda])
          THEN LET s1 == IF subscribeGuard(wasSubscribed(ctx.pre),
                                           s.refs[firstExtRef], controlBlock)
                         THEN dispatchEvent(D, s,
                                vqSubscribe(ctx, firstFcda, nextFcda, nextExtRef,
                                            controlBlock))
                         ELSE s
               IN  IF unsubscribeGuard(wasSubscribed(ctx.pre), s1.refs[firstExtRef])
                   THEN dispatchEvent(D, s1,
                          Intent("unsubscribe", "vq", ctx, nextExtRef, NoElement,
                                 NoElement, Null))
                   ELSE s1
          ELSE s

\* The ExtRefs of firstExtRef's LDevice that do not precede it, the first n
svExtRefsOf(D, firstExtRef, n) ==
    Take(FilterSeq(FilterSeq(Ids(D.refLn),
                     LAMBDA r : ClosestLDevice(D, r) = ClosestLDevice(D, firstExtRef)),
           LAMBDA compareExtRef :
             compareDocumentPosition(firstExtRef, compareExtRef)
               # DOCUMENT_POSITION_PRECEDING),
         n)

\* The forEach over the matched pairs, from pair k on
RECURSIVE svDispatch(_, _, _, _, _, _)
svDispatch(D, s, ctx, controlBlock, pairs, k) ==
    IF k > Len(pairs) THEN s
    ELSE
      LET mFcda   == pairs[k][1]
          mExtRef == pairs[k][2]
          s1 == IF subscribeGuard(wasSubscribed(ctx.pre), s.refs[ctx.element],
                                  controlBlock)
                THEN dispatchEvent(D, s,
                       Intent("subscribe", "sv", ctx, mExtRef, mFcda, controlBlock, Null))
                ELSE s
          s2 == IF unsubscribeGuard(wasSubscribed(ctx.pre), s1.refs[ctx.element])
                THEN dispatchEvent(D, s1,
                       Intent("unsubscribe", "sv", ctx, mExtRef, NoElement, NoElement,
                              Some(ctx.ignoreSupervision)))
                ELSE s1
      IN  svDispatch(D, s2, ctx, controlBlock, pairs, k + 1)

\* matchFCDAsToExtRefs(svFCDAs, svExtRefs) and the forEach over its result
callMatchFCDAsToExtRefs(D, s, ctx, controlBlock, svFCDAs, svExtRefs) ==
    IF matchFCDAsToExtRefsThrows(D, s.refs, svFCDAs, svExtRefs)
    THEN Throw([s EXCEPT !.matched = Append(@,
                  [index |-> ctx.index, fcdas |-> svFCDAs, extRefs |-> svExtRefs,
                   subscribed |-> [i \in DOMAIN svExtRefs |->
                                     isSubscribed(s.refs[svExtRefs[i]])],
                   threw |-> TRUE, pairs |-> <<>>])])
    ELSE svDispatch(D,
           [s EXCEPT !.matched = Append(@,
              [index |-> ctx.index, fcdas |-> svFCDAs, extRefs |-> svExtRefs,
               subscribed |-> [i \in DOMAIN svExtRefs |->
                                 isSubscribed(s.refs[svExtRefs[i]])],
               threw |-> FALSE,
               pairs |-> matchFCDAsToExtRefs(D, s.refs, svFCDAs, svExtRefs)])],
           ctx, controlBlock,
           matchFCDAsToExtRefs(D, s.refs, svFCDAs, svExtRefs), 1)

\* The early return of modifySampledValueExtRefs: !(numberOfSvs > 2)
tooFewSvs_BelowTwo(numberOfSvs) == ~(numberOfSvs > 1)

tooFewSvs(numberOfSvs) == ~(numberOfSvs > 2)

modifySampledValueExtRefs(D, s, ctx, firstFcda) ==
    LET numberOfSvs == svOrderedFCDAs(D, firstFcda)
        firstExtRef == ctx.element
    IN  IF tooFewSvs(numberOfSvs) THEN s
        ELSE IF findControlBlockThrows(D, s.refs[firstExtRef]) THEN Throw(s)
        ELSE IF ClosestLDevice(D, firstExtRef) = NoElement THEN Throw(s)
        ELSE
          callMatchFCDAsToExtRefs(
            D, s, ctx, findControlBlock(D, s.refs[firstExtRef]),
            <<firstFcda>> \o getNextSiblings(D, firstFcda, numberOfSvs - 1),
            svExtRefsOf(D, firstExtRef, numberOfSvs))

\* The second call of processSiemensExtRef, reached unless the first threw
thenValueAndQualityPair(D, s, ctx, firstFcda) ==
    IF s.err THEN s ELSE modifyValueAndQualityPair(D, s, ctx, firstFcda)

processSiemensExtRef(D, s0, ctx) ==
    LET s == [s0 EXCEPT !.calls = Append(@, [index |-> ctx.index,
                                              element |-> ctx.element,
                                              pre |-> ctx.pre,
                                              live |-> s0.refs[ctx.element]])]
        extRef == s.refs[ctx.element]
    IN  IF ~isSubscribed(extRef) /\ ctx.pre # NoSnapshot /\ ~isSubscribed(ctx.pre.node)
        THEN s
        \* findFCDAs(preEventExtRef!) reads tagName of null
        ELSE IF ~isSubscribed(extRef) /\ ctx.pre = NoSnapshot THEN Throw(s)
        ELSE
          LET fcdas == IF isSubscribed(extRef) THEN findFCDAs(D, extRef)
                       ELSE findFCDAs(D, ctx.pre.node)
          IN  IF fcdas = <<>> THEN s
              ELSE thenValueAndQualityPair(
                     D, modifySampledValueExtRefs(D, s, ctx, fcdas[1]), ctx, fcdas[1])

\* The options of the listener that calls captureMetadata
captureListenerOptions_Bubbling == [capture |-> FALSE]

captureListenerOptions == [capture |-> TRUE]

\* captureMetadata_Append: push onto the buffer instead of replacing it
captureMetadata_Append(P, R, ev) ==
    IF shouldListen(ev.target)
    THEN LET flatEdits == flat(Array(<<ev.detail>>))
         IN  [P EXCEPT
                !.ignoreSupervision = ev.target.ignoresupervision,
                !.preEventExtRef = @ \o
                   [i \in 1..Len(flatEdits) |->
                      IF isUpdate(flatEdits[i]) /\ flatEdits[i].tagName = "ExtRef"
                      THEN importNode(R, flatEdits[i].element)
                      ELSE NoSnapshot]]
    ELSE P

\* captureMetadata(event); P holds the plugin's fields
captureMetadata(P, R, ev) ==
    IF shouldListen(ev.target)
    THEN LET flatEdits == flat(Array(<<ev.detail>>))
         IN  [P EXCEPT
                !.ignoreSupervision = ev.target.ignoresupervision,
                !.preEventExtRef =
                   [i \in 1..Len(flatEdits) |->
                      IF isUpdate(flatEdits[i]) /\ flatEdits[i].tagName = "ExtRef"
                      THEN importNode(R, flatEdits[i].element)
                      ELSE NoSnapshot]]
    ELSE P

\* this.preEventExtRef[index], undefined past the end
BufferAt(buffer, index) ==
    IF index \in DOMAIN buffer THEN buffer[index] ELSE NoSnapshot

\* The forEach of modifyAdditionalExtRefs from edit i on
RECURSIVE forEachEdit(_, _, _, _, _)
forEachEdit(D, P, s, flatEdits, i) ==
    IF i > Len(flatEdits) \/ s.err THEN s
    ELSE
      LET edit == flatEdits[i]
          s1 == IF /\ isUpdate(edit)
                   /\ edit.tagName = "ExtRef"
                   /\ D.manufacturer = Some(s_SIEMENS)
                THEN processSiemensExtRef(D, s,
                       [index |-> i, element |-> edit.element,
                        pre |-> BufferAt(P.preEventExtRef, i),
                        ignoreSupervision |-> P.ignoreSupervision])
                ELSE s
      IN  forEachEdit(D, P, s1, flatEdits, i + 1)

\* "restore pre-event cached data", reached unless the forEach threw
restoreCache(P, s) ==
    IF s.err THEN [P |-> P, s |-> s]
    ELSE [P |-> [P EXCEPT !.preEventExtRef = <<>>, !.ignoreSupervision = FALSE],
          s |-> s]

\* modifyAdditionalExtRefs(event): the plugin's fields and the thread record
\* after it
modifyAdditionalExtRefs(D, P, s, ev) ==
    IF ~P.enabled THEN [P |-> P, s |-> s]
    ELSE restoreCache(P, forEachEdit(D, P, s, flat(Array(<<ev.detail>>)), 1))

-----------------------------------------------------------------------------
(* Documents                                                               *)

s_P == <<"P">>
s_L == <<"L">>
s_S == <<"S">>
s_X == <<"X">>
s_1 == <<"1">>
s_2 == <<"2">>
s_CB == <<"C", "B">>
s_ST == <<"S", "T">>
s_TCTR == <<"T", "C", "T", "R">>
s_GGIO == <<"G", "G", "I", "O">>
s_AmpSv == <<"A", "m", "p", "S", "v">>
s_Ind == <<"I", "n", "d">>
s_In1 == <<"I", "n", "1">>
s_In2 == <<"I", "n", "2">>
s_stVal == <<"s", "t", "V", "a", "l">>
s_instMag_i == <<"i", "n", "s", "t", "M", "a", "g", ".", "i">>
s_OTHER == <<"O", "T", "H", "E", "R">>
s_foo == <<"f", "o", "o">>
s_xq == <<"x", "q">>
s_d == <<"d">>

Fcda(lnClass, lnInst, doName, daName, fc) ==
    [ldInst |-> Some(s_L), prefix |-> Null, lnClass |-> Some(lnClass),
     lnInst |-> Some(lnInst), doName |-> Some(doName), daName |-> Some(daName),
     fc |-> Some(fc)]

\* An unsubscribed later-binding ExtRef
ExtRef(intAddr) == [a \in ExtRefAttrs |-> IF a = "intAddr" THEN intAddr ELSE Null]

\* SIPROTEC 5 internal addresses: sampled values, and GOOSE indications
SvAddr(daName) ==
    Some(s_AmpSv \o <<";">> \o s_TCTR \o <<"/">> \o s_AmpSv \o <<"/">> \o daName)
IndAddr(name, daName) == Some(name \o <<";", "/">> \o s_Ind \o <<"/">> \o daName)

Ln(tag, lnClass, ld) == [tag |-> tag, lnClass |-> Some(lnClass), ld |-> ld]

PubLN0 == [tag |-> "LN0", lnClass |-> Some(s_LLN0), inst |-> Some(<<>>),
           prefix |-> Null, ldInst |-> Some(s_L)]
PubLN == [tag |-> "LN", lnClass |-> Some(s_GGIO), inst |-> Some(s_1),
          prefix |-> Null, ldInst |-> Some(s_L)]

\* A sampled value stream of two phases: four FCDAs, and four ExtRefs in
\* two consecutive logical nodes.  bind says which FCDA the later binding
\* plugin binds an ExtRef to (0: it leaves that ExtRef alone), hostCb the
\* control block it names when it does (0: none, an Edition 1 subscription).
StreamDoc ==
    [name |-> "stream",
     manufacturer |-> Some(s_SIEMENS),
     lns |-> <<Ln("LN", s_TCTR, 1), Ln("LN", s_TCTR, 1)>>,
     refLn |-> <<1, 1, 2, 2>>,
     refInit |-> <<ExtRef(SvAddr(s_instMag_i)), ExtRef(SvAddr(s_q)),
                   ExtRef(SvAddr(s_instMag_i)), ExtRef(SvAddr(s_q))>>,
     iedName |-> s_P,
     pubLns |-> <<PubLN0>>,
     dataSets |-> <<[name |-> Some(s_S), ln |-> 1]>>,
     fcdas |-> <<Fcda(s_TCTR, s_1, s_AmpSv, s_instMag_i, s_MX),
                 Fcda(s_TCTR, s_1, s_AmpSv, s_q, s_MX),
                 Fcda(s_TCTR, s_2, s_AmpSv, s_instMag_i, s_MX),
                 Fcda(s_TCTR, s_2, s_AmpSv, s_q, s_MX)>>,
     fcdaDs |-> <<1, 1, 1, 1>>,
     cbs |-> <<[tag |-> "SampledValueControl", ln |-> 1, name |-> Some(s_CB),
                datSet |-> Some(s_S)]>>,
     bind |-> <<1, 0, 0, 0>>,
     hostCb |-> 1]

\* A GOOSE value/quality pair and a second, unrelated indication
PairDoc ==
    [name |-> "pair",
     manufacturer |-> Some(s_SIEMENS),
     lns |-> <<Ln("LN", s_GGIO, 1)>>,
     refLn |-> <<1, 1, 1>>,
     refInit |-> <<ExtRef(IndAddr(s_In1, s_stVal)), ExtRef(IndAddr(s_In1, s_q)),
                   ExtRef(IndAddr(s_In2, s_stVal))>>,
     iedName |-> s_P,
     pubLns |-> <<PubLN0>>,
     dataSets |-> <<[name |-> Some(s_S), ln |-> 1]>>,
     fcdas |-> <<Fcda(s_GGIO, s_1, s_Ind, s_stVal, s_ST),
                 Fcda(s_GGIO, s_1, s_Ind, s_q, s_ST),
                 Fcda(s_GGIO, s_2, s_Ind, s_stVal, s_ST)>>,
     fcdaDs |-> <<1, 1, 1>>,
     cbs |-> <<[tag |-> "GSEControl", ln |-> 1, name |-> Some(s_CB),
                datSet |-> Some(s_S)]>>,
     bind |-> <<1, 0, 0>>,
     hostCb |-> 1]

Fixtures ==
    << StreamDoc,
       PairDoc,
       \* no control block names the DataSet; subscriptions carry no srcCBName
       [StreamDoc EXCEPT !.name = "stream, no control block",
                         !.cbs[1].datSet = Some(s_X), !.hostCb = 0],
       [PairDoc EXCEPT !.name = "pair, no control block",
                       !.cbs[1].datSet = Some(s_X), !.hostCb = 0],
       \* every ExtRef of the stream in a logical node of its own
       [StreamDoc EXCEPT !.name = "stream, one ExtRef per LN",
                         !.lns = <<Ln("LN", s_TCTR, 1), Ln("LN", s_TCTR, 1),
                                   Ln("LN", s_TCTR, 1), Ln("LN", s_TCTR, 1)>>,
                         !.refLn = <<1, 2, 3, 4>>],
       \* the first ExtRef of the stream has no, or a malformed, intAddr
       [StreamDoc EXCEPT !.name = "stream, first intAddr missing",
                         !.refInit[1] = ExtRef(Null)],
       [StreamDoc EXCEPT !.name = "stream, first intAddr malformed",
                         !.refInit[1] = ExtRef(Some(s_foo))],
       \* malformed addresses on a pair
       [PairDoc EXCEPT !.name = "pair, malformed addresses",
                       !.refInit[1] = ExtRef(Some(s_foo)),
                       !.refInit[2] = ExtRef(Some(s_xq))],
       [PairDoc EXCEPT !.name = "pair, first intAddr missing",
                       !.refInit[1] = ExtRef(Null)],
       \* the stream's first ExtRefs are Inputs of LN0
       [StreamDoc EXCEPT !.name = "stream, ExtRefs in LN0",
                         !.lns[1] = Ln("LN0", s_LLN0, 1)],
       \* another manufacturer
       [PairDoc EXCEPT !.name = "pair, other manufacturer",
                       !.manufacturer = Some(s_OTHER)],
       \* an ExtRef ahead of the stream's in the same LDevice
       [StreamDoc EXCEPT !.name = "stream, an ExtRef before it",
                         !.refLn = <<1, 1, 1, 2, 2>>,
                         !.refInit = <<ExtRef(SvAddr(s_q))>> \o StreamDoc.refInit,
                         !.bind = <<0, 1, 0, 0, 0>>],
       \* a DataSet and a ReportControl in an LN
       [PairDoc EXCEPT !.name = "pair, report control in LN",
                       !.pubLns = <<PubLN>>,
                       !.cbs[1].tag = "ReportControl"],
       \* the later binding plugin edits the third ExtRef, the second phase
       [StreamDoc EXCEPT !.name = "stream, second phase", !.bind = <<0, 0, 3, 0>>],
       \* the later binding plugin edits the quality ExtRef of the pair
       [PairDoc EXCEPT !.name = "pair, quality", !.bind = <<0, 2, 0>>],
       \* the later binding plugin binds the third ExtRef to the first FCDA
       [StreamDoc EXCEPT !.name = "stream, from the third ExtRef",
                         !.bind = <<0, 0, 1, 0>>],
       \* the second logical node of the stream's ExtRefs in another LDevice
       [StreamDoc EXCEPT !.name = "stream, two LDevices",
                         !.lns = <<Ln("LN", s_TCTR, 1), Ln("LN", s_TCTR, 2)>>],
       \* another indication between the value and its quality
       [PairDoc EXCEPT !.name = "pair, not adjacent",
                       !.refInit = <<ExtRef(IndAddr(s_In1, s_stVal)),
                                     ExtRef(IndAddr(s_In2, s_stVal)),
                                     ExtRef(IndAddr(s_In1, s_q))>>,
                       !.fcdas = <<Fcda(s_GGIO, s_1, s_Ind, s_stVal, s_ST),
                                   Fcda(s_GGIO, s_2, s_Ind, s_stVal, s_ST),
                                   Fcda(s_GGIO, s_1, s_Ind, s_q, s_ST)>>],
       \* the third ExtRef of the stream is subscribed already
       [StreamDoc EXCEPT !.name = "stream, third ExtRef subscribed",
                         !.refInit = ApplyEdit(StreamDoc.refInit,
                                       Update(3, SubscribeAttributes(StreamDoc, 3, 1)))],
       \* a fifth ExtRef after the stream's, a fifth FCDA after the stream
       [StreamDoc EXCEPT !.name = "stream, one more ExtRef and FCDA",
                         !.refLn = <<1, 1, 2, 2, 2>>,
                         !.refInit = StreamDoc.refInit
                                       \o <<ExtRef(SvAddr(s_instMag_i))>>,
                         !.fcdas = StreamDoc.fcdas
                                     \o <<Fcda(s_GGIO, s_1, s_Ind, s_stVal, s_ST)>>,
                         !.fcdaDs = <<1, 1, 1, 1, 1>>,
                         !.bind = <<1, 0, 0, 0, 0>>]
    >>

Doc == Fixtures[fx]

\* The element that dispatched the event
LaterBinding(ignoresupervision) ==
    [isElement |-> TRUE, identity |-> Some(LaterBindingIdentity),
     allowexternalplugins |-> TRUE, ignoresupervision |-> ignoresupervision]
LaterBindingLocked ==
    [isElement |-> TRUE, identity |-> Some(LaterBindingIdentity),
     allowexternalplugins |-> FALSE, ignoresupervision |-> FALSE]
OtherPlugin ==
    [isElement |-> TRUE, identity |-> Null,
     allowexternalplugins |-> TRUE, ignoresupervision |-> FALSE]

Listened == {LaterBinding(TRUE), LaterBinding(FALSE)}
Unlistened == {LaterBindingLocked, OtherPlugin}

\* The edits of ExtRefs the host dispatches in document D
ExtRefEdits(D) ==
    LET bound == {r \in 1..Len(D.bind) : D.bind[r] # 0}
    IN  {Update(r, SubscribeAttributes(D, D.bind[r], D.hostCb)) : r \in bound}
          \cup {Update(r, UnsubscribeAttributes) : r \in bound}
          \cup {Update(r, [serviceType |-> Some(s_toString)]) : r \in bound}

\* Edits the plugin passes over: an Insert, and the Update of another element
OtherEdits ==
    { [type |-> "edit", kind |-> "Insert", tagName |-> "ExtRef",
       element |-> NoElement, attributes |-> <<>>],
      [type |-> "edit", kind |-> "Update", tagName |-> "LN",
       element |-> NoElement, attributes |-> [desc |-> Some(s_d)]] }

\* How deep the arrays of an event's detail nest
MaxDepth == 1

RECURSIVE Nest(_, _)
Nest(x, d) == IF d = 0 THEN x ELSE Array(<<Nest(x, d - 1)>>)

\* event.detail: one edit, an empty array, an array of two edits of
\* ExtRefs, or an array of an edit the plugin passes over and an edit of an
\* ExtRef nested further
Details(D) ==
    ExtRefEdits(D)
      \cup OtherEdits
      \cup {Array(<<>>)}
      \cup {Array(<<a, b>>) : a \in ExtRefEdits(D), b \in ExtRefEdits(D)}
      \cup {Array(<<a, Nest(b, d)>>) :
              a \in OtherEdits, b \in ExtRefEdits(D), d \in 0..MaxDepth}

\* The events of the model: any detail from the later binding plugin when it
\* allows external plugins, single edits from the other initiators
Events(D) ==
    {[target |-> t, detail |-> d] : t \in Listened, d \in Details(D)}
      \cup {[target |-> t, detail |-> d] : t \in Unlistened, d \in ExtRefEdits(D)}

-----------------------------------------------------------------------------
(* The state machine: one 'oscd-edit' event travels from the window down   *)
(* to its target and back up (capture, then the editor at the host         *)
(* element, then the window's bubbling listeners)                          *)

NoEvent == [none |-> TRUE]

\* No matching function is applied on its own
NoCall == [none |-> TRUE]

Plugin == [enabled |-> enabled, preEventExtRef |-> preEventExtRef,
           ignoreSupervision |-> ignoreSupervision]

\* History only: a snapshot that is in the buffer when an event is
\* dispatched was captured for an earlier event
MarkStale(buffer) ==
    [i \in DOMAIN buffer |->
       IF buffer[i] = NoSnapshot THEN NoSnapshot ELSE [buffer[i] EXCEPT !.fresh = FALSE]]

Init ==
    /\ fx \in 1..Len(Fixtures)
    /\ refs = Fixtures[fx].refInit
    /\ enabled \in BOOLEAN
    /\ preEventExtRef = <<>>
    /\ ignoreSupervision = FALSE
    /\ phase = "idle"
    /\ event = NoEvent
    /\ intents = <<>>
    /\ raised = FALSE
    /\ calls = <<>>
    /\ matched = <<>>
    /\ reentered = FALSE
    /\ startRefs = Fixtures[fx].refInit
    /\ leftover = FALSE
    /\ args = NoCall
    /\ result = NoCall

\* The Close button of the dialog: this.enabled = this.enabledUI.selected
SetEnabled ==
    /\ phase = "idle"
    /\ enabled' = ~enabled
    /\ UNCHANGED <<args, result>>
    /\ UNCHANGED <<fx, refs, preEventExtRef, ignoreSupervision, phase, event,
                   intents, raised, calls, matched, reentered, startRefs,
                   leftover>>

\* An element of the host dispatches an 'oscd-edit' event
HostDispatch ==
    /\ phase = "idle"
    /\ event' \in Events(Doc)
    /\ phase' = "capture"
    /\ intents' = <<>>
    /\ calls' = <<>>
    /\ matched' = <<>>
    /\ reentered' = FALSE
    /\ raised' = FALSE
    /\ startRefs' = refs
    /\ leftover' = (preEventExtRef # <<>>)
    /\ preEventExtRef' = MarkStale(preEventExtRef)
    /\ UNCHANGED <<args, result>>
    /\ UNCHANGED <<fx, refs, enabled, ignoreSupervision>>

\* The window's capturing listeners
WindowCapture ==
    /\ phase = "capture"
    /\ LET P1 == IF captureListenerOptions.capture
                 THEN captureMetadata(Plugin, refs, event) ELSE Plugin
       IN  /\ preEventExtRef' = P1.preEventExtRef
           /\ ignoreSupervision' = P1.ignoreSupervision
    /\ phase' = "host"
    /\ UNCHANGED <<args, result>>
    /\ UNCHANGED <<fx, refs, enabled, event, intents, raised, calls, matched,
                   reentered, startRefs, leftover>>

\* The editor's listener applies the event's edits to the document
HostApply ==
    /\ phase = "host"
    /\ refs' = ApplyEdits(refs, flat(Array(<<event.detail>>)))
    /\ phase' = "bubble"
    /\ UNCHANGED <<args, result>>
    /\ UNCHANGED <<fx, enabled, preEventExtRef, ignoreSupervision, event, intents,
                   raised, calls, matched, reentered, startRefs, leftover>>

\* The listener the constructor adds without options
bubblingListeners(P, s, ev) ==
    IF shouldListen(ev.target)
    THEN modifyAdditionalExtRefs(Doc, P, s, ev)
    ELSE [P |-> P, s |-> s]

\* The window's bubbling listeners, in the order the constructor added them
WindowBubble ==
    /\ phase = "bubble"
    /\ \E r \in {bubblingListeners(
                    IF captureListenerOptions.capture
                    THEN Plugin ELSE captureMetadata(Plugin, refs, event),
                    [refs |-> refs, out |-> <<>>, calls |-> <<>>, matched |-> <<>>,
                     reentered |-> FALSE, err |-> FALSE],
                    event)} :
           /\ preEventExtRef' = r.P.preEventExtRef
           /\ ignoreSupervision' = r.P.ignoreSupervision
           /\ refs' = r.s.refs
           /\ intents' = r.s.out
           /\ calls' = r.s.calls
           /\ matched' = r.s.matched
           /\ reentered' = r.s.reentered
           /\ raised' = r.s.err
    /\ phase' = "done"
    /\ UNCHANGED <<args, result>>
    /\ UNCHANGED <<fx, enabled, event, startRefs, leftover>>

\* dispatchEvent returns to the host: the notification cycle is over
Return ==
    /\ phase = "done"
    /\ phase' = "idle"
    /\ event' = NoEvent
    /\ intents' = <<>>
    /\ calls' = <<>>
    /\ matched' = <<>>
    /\ reentered' = FALSE
    /\ raised' = FALSE
    /\ startRefs' = refs
    /\ leftover' = FALSE
    /\ UNCHANGED <<args, result>>
    /\ UNCHANGED <<fx, refs, enabled, preEventExtRef, ignoreSupervision>>

Next ==
    SetEnabled \/ HostDispatch \/ WindowCapture \/ HostApply \/ WindowBubble \/ Return

Spec == Init /\ [][Next]_vars

-----------------------------------------------------------------------------
(* Properties.  A notification cycle is complete in the states with        *)
(* phase = "done": both window listeners have run and dispatchEvent is     *)
(* about to return to the host.                                            *)

CycleDone == phase = "done"
FlatEdits == IF event = NoEvent THEN <<>> ELSE flat(Array(<<event.detail>>))

\* The transition the Resolver saw at invocation c
SnapshotSubscribed(c) == c.pre # NoSnapshot /\ isSubscribed(c.pre.node)
LiveSubscribed(c) == isSubscribed(c.live)
NewlySubscribed(c) == ~SnapshotSubscribed(c) /\ LiveSubscribed(c)
NewlyUnsubscribed(c) == SnapshotSubscribed(c) /\ ~LiveSubscribed(c)

\* The EditIntents emitted for the edit at position index of the notification
IntentsFor(index) == {k \in DOMAIN intents : intents[k].index = index}

\* C1: the kind of every EditIntent follows the transition of the reference
\* that triggered it: only subscribes on Unsubscribed->Subscribed, only
\* unsubscribes on Subscribed->Unsubscribed, on the stream path and on the
\* quality-pair path, for every edit of every notification.
C1_KindFollowsTransition ==
    CycleDone =>
      \A c \in Range(calls) : \A k \in IntentsFor(c.index) :
         /\ NewlySubscribed(c) => intents[k].kind = "subscribe"
         /\ NewlyUnsubscribed(c) => intents[k].kind = "unsubscribe"

\* A Subscribed->Unsubscribed edit answered on both paths
C1_Witness ==
    /\ CycleDone
    /\ \E c \in Range(calls) :
         /\ NewlyUnsubscribed(c)
         /\ \E k \in IntentsFor(c.index) : intents[k].path = "sv"
         /\ \E k \in IntentsFor(c.index) : intents[k].path = "vq"

\* C2: when the subscription state of the triggering reference did not
\* change (snapshot and live element both subscribed, or both unsubscribed)
\* processSiemensExtRef emits no EditIntent, however often it is invoked.
C2_UnchangedEmitsNothing ==
    CycleDone =>
      \A c \in Range(calls) :
         (SnapshotSubscribed(c) = LiveSubscribed(c)) => IntentsFor(c.index) = {}

\* Two invocations in a row for one subscribed reference with a subscribed
\* snapshot
C2_Witness ==
    /\ CycleDone
    /\ Len(calls) = 2
    /\ calls[1].element = calls[2].element
    /\ \A i \in 1..2 : SnapshotSubscribed(calls[i]) /\ LiveSubscribed(calls[i])
    /\ intents = <<>>

\* C3: the snapshot buffer is empty when a notification cycle completes,
\* whichever branch was taken.
C3_BufferEmptyAfterCycle == CycleDone => preEventExtRef = <<>>

\* The snapshots of the current event's edits, taken before the edits apply
ExpectedSnapshots ==
    [i \in 1..Len(FlatEdits) |->
       IF isUpdate(FlatEdits[i]) /\ FlatEdits[i].tagName = "ExtRef"
       THEN [node |-> startRefs[FlatEdits[i].element],
             of |-> FlatEdits[i].element, fresh |-> TRUE]
       ELSE NoSnapshot]

\* C4: within one notification cycle captureMetadata has run before the
\* host applies the edit and modifyAdditionalExtRefs runs after it: while
\* the edit is applied and until inference runs the buffer holds the
\* attributes from before the edit, and every snapshot the Resolver compares
\* against holds them too.
C4_SnapshotIsPreEdit ==
    /\ (phase \in {"host", "bubble"} /\ shouldListen(event.target))
          => preEventExtRef = ExpectedSnapshots
    /\ CycleDone =>
         \A c \in Range(calls) :
            c.pre # NoSnapshot /\ c.pre.node = startRefs[c.element]

\* The Resolver compared a live element with a snapshot that differs from it
C4_Witness ==
    /\ CycleDone
    /\ \E c \in Range(calls) : c.pre # NoSnapshot /\ c.pre.node # c.live

\* C5: whenever the Resolver is invoked for the i-th flattened edit of a
\* notification, its snapshot was captured in the same cycle from that i-th
\* edit, never left over from an earlier notification.
C5_SnapshotOfSameCycle ==
    CycleDone =>
      \A c \in Range(calls) :
         /\ c.pre # NoSnapshot
         /\ c.pre.fresh
         /\ c.pre.of = c.element
         /\ c.element = FlatEdits[c.index].element
         /\ c.pre = ExpectedSnapshots[c.index]

\* The Resolver ran in a cycle that began with snapshots of an earlier one
\* in the buffer
C5_Witness == CycleDone /\ leftover /\ calls # <<>>

\* The first descriptor the Resolver resolves at invocation c, NoElement
\* when none resolves
FirstFcdaAt(c) ==
    LET fcdas == IF LiveSubscribed(c) THEN findFCDAs(Doc, c.live)
                 ELSE findFCDAs(Doc, c.pre.node)
    IN  IF fcdas = <<>> THEN NoElement ELSE fcdas[1]

\* A notification of one edit, for which the Resolver was invoked once
SingleCall == CycleDone /\ Len(FlatEdits) = 1 /\ Len(calls) = 1

\* The ExtRefs when the Resolver was invoked in a notification of one edit
RefsAtCall == ApplyEdits(startRefs, FlatEdits)

\* In a notification of one edit: the number of references the stream that
\* starts at c's descriptor is matched to, 0 when c's descriptor starts no
\* stream of n descriptors
StreamMatches(c, n) ==
    LET first == FirstFcdaAt(c)
    IN  IF first = NoElement THEN 0
        ELSE IF svOrderedFCDAs(Doc, first) # n THEN 0
        ELSE IF ClosestLDevice(Doc, c.element) = NoElement THEN 0
        ELSE LET svExtRefs == svExtRefsOf(Doc, c.element, n)
                 svFCDAs   == <<first>> \o getNextSiblings(Doc, first, n - 1)
             IN  IF matchFCDAsToExtRefsThrows(Doc, RefsAtCall, svFCDAs, svExtRefs)
                 THEN 0
                 ELSE Len(matchFCDAsToExtRefs(Doc, RefsAtCall, svFCDAs, svExtRefs))

\* C6: end-to-end scenario 2: reference R1 goes subscribed->unsubscribed and
\* is part of a 4-descriptor SV stream with 4 matching references; handling
\* the notification emits exactly 4 unsubscribe EditIntents in total.
C6_Scenario2 ==
    (SingleCall /\ NewlyUnsubscribed(calls[1]) /\ StreamMatches(calls[1], 4) = 4)
      => /\ Len(intents) = 4
         /\ \A k \in DOMAIN intents : intents[k].kind = "unsubscribe"

ResolvesControlBlock(c) ==
    ~findControlBlockThrows(Doc, c.live) /\ findControlBlock(Doc, c.live) # NoElement

\* The Address Parser's verdict on an intAddr attribute: unparseable unless
\* it is one semicolon-delimited pair whose remainder has two or three
\* slash-delimited segments
Unparseable(intAddr) ==
    \/ intAddr = Null
    \/ LET parts == Split(Val(intAddr), ";")
       IN  \/ Len(parts) # 2
           \/ Len(Split(parts[2], "/")) \notin {2, 3}

\* C8: end-to-end scenario 3: when the triggering reference has an
\* unparseable intAddr, handling its edit emits zero EditIntents and raises
\* no error, whatever the transition and the surrounding descriptors and
\* references.
C8_Scenario3 ==
    CycleDone =>
      \A c \in Range(calls) :
         Unparseable(getAttribute(c.live, "intAddr"))
            => IntentsFor(c.index) = {} /\ ~raised

\* C9: handling a notification never raises, whatever the document and the
\* edit; a missing prerequisite only skips a companion.
C9_NeverRaises == ~raised

\* C10: every subscribe EditIntent carries a resolved control block, and on
\* an Unsubscribed->Subscribed transition for which findControlBlock resolves
\* none no subscribe is emitted, on either path.
C10_SubscribeNeedsControlBlock ==
    CycleDone =>
      /\ \A k \in DOMAIN intents :
            intents[k].kind = "subscribe" => intents[k].controlBlock # NoElement
      /\ \A c \in Range(calls) :
            (NewlySubscribed(c) /\ ~ResolvesControlBlock(c)) => IntentsFor(c.index) = {}

\* A newly subscribed reference whose descriptor starts a stream and has a
\* quality pair, and no control block
C10_Witness ==
    /\ SingleCall
    /\ NewlySubscribed(calls[1])
    /\ ~findControlBlockThrows(Doc, calls[1].live)
    /\ findControlBlock(Doc, calls[1].live) = NoElement
    /\ StreamMatches(calls[1], 4) = 4
    /\ isfcdaPairWithQuality(Doc.fcdas[FirstFcdaAt(calls[1])],
                             Doc.fcdas[NextFcda(Doc, FirstFcdaAt(calls[1]))])
    /\ extRefMatchSiemens(refs[calls[1].element], refs[NextExtRef(Doc, calls[1].element)])

\* C14: the stream path acts only when the classifier count exceeds 2: for a
\* starting descriptor whose count is 0, 1 or 2 modifySampledValueExtRefs
\* emits nothing, and any intent for that edit comes from the quality-pair
\* path alone.
C14_StreamNeedsMoreThanTwo ==
    CycleDone =>
      \A c \in Range(calls) :
         (FirstFcdaAt(c) # NoElement /\ svOrderedFCDAs(Doc, FirstFcdaAt(c)) <= 2)
            => \A k \in IntentsFor(c.index) : intents[k].path = "vq"

\* A count of exactly 2, matching references, and an intent of the
\* quality-pair path
C14_Witness ==
    /\ SingleCall
    /\ StreamMatches(calls[1], 2) = 2
    /\ IntentsFor(calls[1].index) # {}

\* C15: the Stream-to-Reference Matcher never pairs a reference lying before
\* the triggering reference: every target of a stream-path EditIntent is the
\* triggering reference or follows it in document order, within the same
\* logical device.
C15_StreamTargetsNotBefore ==
    CycleDone =>
      \A k \in DOMAIN intents :
         intents[k].path = "sv"
           => /\ intents[k].sink >= intents[k].trigger
              /\ ClosestLDevice(Doc, intents[k].sink)
                   = ClosestLDevice(Doc, intents[k].trigger)

\* Stream-path intents for a trigger that has references of its logical
\* device before it, with addresses the stream's descriptors expect
C15_Witness ==
    /\ SingleCall
    /\ calls[1].element > 2
    /\ \E k \in DOMAIN intents : intents[k].path = "sv"
    /\ \A r \in 1..(calls[1].element - 1) :
          ClosestLDevice(Doc, r) = ClosestLDevice(Doc, calls[1].element)

\* The first sibling of descriptor f in its DataSet, at any position, that
\* passes the descriptor-form test; NoElement when there is none
CompanionFcda(f) ==
    LET S == {g \in DOMAIN Doc.fcdas :
                /\ g # f
                /\ Doc.fcdaDs[g] = Doc.fcdaDs[f]
                /\ isfcdaPairWithQuality(Doc.fcdas[f], Doc.fcdas[g])}
    IN  IF S = {} THEN NoElement ELSE CHOOSE g \in S : \A h \in S : g <= h

\* The first sibling of reference r in its container that passes the
\* reference-form test
CompanionExtRef(R, r) ==
    LET S == {q \in DOMAIN R :
                /\ q # r
                /\ Doc.refLn[q] = Doc.refLn[r]
                /\ extRefMatchSiemens(R[r], R[q])}
    IN  IF S = {} THEN NoElement ELSE CHOOSE q \in S : \A h \in S : q <= h

\* The sibling descriptors of f in its DataSet that pass the descriptor-form
\* test, and the sibling references of r in its container that pass the
\* reference-form test
CompanionFcdas(f) ==
    {g \in DOMAIN Doc.fcdas :
       /\ g # f
       /\ Doc.fcdaDs[g] = Doc.fcdaDs[f]
       /\ isfcdaPairWithQuality(Doc.fcdas[f], Doc.fcdas[g])}
CompanionExtRefs(R, r) ==
    {q \in DOMAIN R :
       /\ q # r
       /\ Doc.refLn[q] = Doc.refLn[r]
       /\ extRefMatchSiemens(R[r], R[q])}

\* C7: end-to-end scenario 1: R1 goes unsubscribed->subscribed and a single
\* quality companion exists (one sibling descriptor and one sibling
\* reference, at any position, pass the quality-pair tests) and is
\* unsubscribed; handling the notification emits exactly one subscribe
\* EditIntent, targeting the companion reference with the companion
\* descriptor as source.  Read with the skip of a subscribe for which no
\* control block resolves, and for a descriptor that starts no stream.
C7_Scenario1 ==
    SingleCall =>
      LET c  == calls[1]
          cf == CompanionFcda(FirstFcdaAt(c))
          cr == CompanionExtRef(RefsAtCall, c.element)
      IN  (/\ NewlySubscribed(c)
           /\ FirstFcdaAt(c) # NoElement
           /\ Cardinality(CompanionFcdas(FirstFcdaAt(c))) = 1
           /\ Cardinality(CompanionExtRefs(RefsAtCall, c.element)) = 1
           /\ ~isSubscribed(RefsAtCall[cr])
           /\ ~(svOrderedFCDAs(Doc, FirstFcdaAt(c)) > 2)
           /\ ResolvesControlBlock(c))
            => /\ Len(intents) = 1
               /\ intents[1].kind = "subscribe"
               /\ intents[1].sink = cr
               /\ intents[1].fcda = cf

\* C16: companion lookup scans siblings: on a non-ignored transition the
\* companion descriptor is the first sibling descriptor of the DataSet, at
\* any position, passing the descriptor-form test, the companion reference
\* the first sibling reference of the container passing the reference-form
\* test; when both exist a companion intent is emitted (a subscribe given a
\* control block).
C16_CompanionScan ==
    SingleCall =>
      LET c  == calls[1]
          cf == CompanionFcda(FirstFcdaAt(c))
          cr == CompanionExtRef(RefsAtCall, c.element)
      IN  (/\ NewlySubscribed(c) \/ NewlyUnsubscribed(c)
           /\ FirstFcdaAt(c) # NoElement
           /\ cf # NoElement
           /\ cr # NoElement
           /\ NewlySubscribed(c) => ResolvesControlBlock(c)
           /\ ~raised)
            => \E k \in IntentsFor(c.index) :
                  /\ intents[k].path = "vq"
                  /\ intents[k].sink = cr
                  /\ intents[k].kind = "subscribe" => intents[k].fcda = cf

-----------------------------------------------------------------------------
(* svOrderedFCDAs applied on its own, to the FCDAs of one DataSet          *)

s_9 == <<"9">>
s_10 == <<"1", "0">>
s_mag_q == <<"m", "a", "g", ".", "q">>

\* The most FCDAs a DataSet of the inputs holds
MaxFcdas == 9

\* How the lnInst of the FCDAs run along the DataSet
SvInstPatterns == {"same", "second LN from the fifth", "9 then 10"}
SvInst(pattern, i) ==
    IF pattern = "same" THEN s_1
    ELSE IF pattern = "second LN from the fifth" THEN (IF i <= 4 THEN s_1 ELSE s_2)
    ELSE (IF i <= 2 THEN s_9 ELSE s_10)

\* What one FCDA of the DataSet may have instead of the regular attribute
SvDefects ==
    {[attr |-> "lnInst", value |-> v] :
        v \in {Null, Some(<<>>), Some(s_1), Some(s_2), Some(s_9), Some(s_10)}}
      \cup {[attr |-> "daName", value |-> v] :
              v \in {Null, Some(s_q), Some(s_stVal), Some(s_mag_q)}}
      \cup {[attr |-> "fc", value |-> v] : v \in {Null, Some(s_ST)}}
      \cup {[attr |-> "doName", value |-> Some(s_Ind)],
            [attr |-> "lnClass", value |-> Some(s_GGIO)],
            [attr |-> "ldInst", value |-> Some(s_X)],
            [attr |-> "prefix", value |-> Some(s_P)]}

\* The inputs: a DataSet of n FCDAs that alternate instMag.i and q counted
\* from firstFcda, one of them (pos, none when 0) with a defect
SvInputs ==
    {[n |-> n, pattern |-> pt, firstFcda |-> f, pos |-> p, defect |-> d] :
        n \in 1..MaxFcdas, pt \in SvInstPatterns, f \in 1..2, p \in 0..MaxFcdas,
        d \in SvDefects}

SvFcda(in, i) ==
    LET regular == Fcda(s_TCTR, SvInst(in.pattern, i), s_AmpSv,
                        IF (i + in.firstFcda) % 2 = 0 THEN s_instMag_i ELSE s_q,
                        s_MX)
    IN  IF i = in.pos THEN [regular EXCEPT ![in.defect.attr] = in.defect.value]
        ELSE regular

\* The document part svOrderedFCDAs reads, holding the first upTo FCDAs
SvDataSet(in, upTo) ==
    [fcdas  |-> [i \in 1..upTo |-> SvFcda(in, i)],
     fcdaDs |-> [i \in 1..upTo |-> 1]]

\* The plugin itself at rest
AtRest ==
    /\ fx = 1
    /\ refs = Fixtures[1].refInit
    /\ enabled = FALSE
    /\ preEventExtRef = <<>>
    /\ ignoreSupervision = FALSE
    /\ phase = "idle"
    /\ event = NoEvent
    /\ intents = <<>>
    /\ raised = FALSE
    /\ calls = <<>>
    /\ matched = <<>>
    /\ reentered = FALSE
    /\ startRefs = Fixtures[1].refInit
    /\ leftover = FALSE

pluginVars == <<fx, refs, enabled, preEventExtRef, ignoreSupervision, phase,
                event, intents, raised, calls, matched, reentered, startRefs,
                leftover>>

SvInit ==
    /\ AtRest
    /\ args \in {in \in SvInputs :
                   /\ in.firstFcda <= in.n
                   /\ in.pos <= in.n
                   /\ (in.pos = 0 => in.defect = [attr |-> "prefix", value |-> Some(s_P)])}
    /\ result = NoCall

ApplySvOrderedFCDAs ==
    /\ result = NoCall
    /\ result' = [count |-> svOrderedFCDAs(SvDataSet(args, args.n), args.firstFcda)]
    /\ UNCHANGED pluginVars
    /\ UNCHANGED args

SvNext == ApplySvOrderedFCDAs

SvSpec == SvInit /\ [][SvNext]_vars

\* The descriptor at 0-based position k of the run that starts at firstFcda
SvAt(k) == SvFcda(args, args.firstFcda + k)
SvInstAt(k) == parseInt(Coalesce(getAttribute(SvAt(k), "lnInst"), <<>>))

\* The run has a descriptor at position k, within the DataSet
SvHas(k) == args.firstFcda + k <= args.n

\* Position k shares logical device, logical-node class and data-object name
\* with the start, and has fc MX
SvInGroup(k) ==
    /\ getAttribute(SvAt(k), "ldInst") = getAttribute(SvAt(0), "ldInst")
    /\ getAttribute(SvAt(k), "lnClass") = getAttribute(SvAt(0), "lnClass")
    /\ getAttribute(SvAt(k), "doName") = getAttribute(SvAt(0), "doName")
    /\ getAttribute(SvAt(k), "fc") = Some(s_MX)

\* Position k carries q when odd, a value attribute when even
SvAlternates(k) ==
    IF k % 2 = 1 THEN getAttribute(SvAt(k), "daName") = Some(s_q)
    ELSE getAttribute(SvAt(k), "daName") \notin {Null, Some(s_q)}

\* The instance of position k is a number, not less than that of the
\* descriptor before it
SvAscends(k) ==
    /\ SvInstAt(k) # NaN
    /\ k > 0 => ~NumLess(SvInstAt(k), SvInstAt(k - 1))

\* Positions 0..k-1 are a valid stream
SvValidBefore(k) ==
    \A j \in 0..(k - 1) : SvInGroup(j) /\ SvAlternates(j) /\ SvAscends(j)

\* C11: ascending rule: in a run that is otherwise a valid stream, when the
\* descriptor at position k has a logical-node instance strictly less than
\* that of the descriptor before it, scanning stops there: the count
\* svOrderedFCDAs returns is capped at k.
C11_AscendingRule ==
    result # NoCall =>
      \A k \in 1..SvSiblings :
         (/\ SvHas(k)
          /\ SvValidBefore(k)
          /\ SvInGroup(k) /\ SvAlternates(k)
          /\ SvInstAt(k) # NaN
          /\ NumLess(SvInstAt(k), SvInstAt(k - 1)))
           => result.count <= k

\* C12: full run: 8 consecutive descriptors that alternate value / q, share
\* logical device, class and data-object name, have fc MX and non-decreasing
\* instance give 8; every count lies in 0..8, and only the start and the 7
\* siblings after it are examined (the descriptors behind them do not matter).
C12_FullRun ==
    result # NoCall =>
      /\ result.count \in 0..8
      /\ LET within == IF args.firstFcda + 7 < args.n THEN args.firstFcda + 7
                       ELSE args.n
         IN  result.count = svOrderedFCDAs(SvDataSet(args, within), args.firstFcda)
      /\ (SvHas(7) /\ SvValidBefore(8)) => result.count = 8

\* A valid run of 9 descriptors, the last with or without a defect
C12_Witness ==
    /\ result # NoCall
    /\ SvHas(8)
    /\ SvValidBefore(8)
    /\ args.pos = args.firstFcda + 8
    /\ result.count = 8

\* C13: quality rule: in a run that is otherwise a valid stream, when the
\* descriptor at an odd position k carries a data-attribute name other than
\* q, scanning stops there and the count equals k.
C13_QualityRule ==
    result # NoCall =>
      \A k \in {j \in 1..SvSiblings : j % 2 = 1} :
         (/\ SvHas(k)
          /\ SvValidBefore(k)
          /\ SvInGroup(k) /\ SvAscends(k)
          /\ getAttribute(SvAt(k), "daName") # Some(s_q))
           => result.count = k

\* A descriptor mag.q at position 5 of a run of 9
C13_Witness ==
    /\ result # NoCall
    /\ SvHas(8)
    /\ SvValidBefore(5)
    /\ SvInGroup(5) /\ SvAscends(5)
    /\ getAttribute(SvAt(5), "daName") = Some(s_mag_q)
    /\ result.count = 5

-----------------------------------------------------------------------------
(* extRefMatchSiemens and isfcdaPairWithQuality applied on their own       *)

\* "<name>;<rest>"
Addr(name, rest) == Some(name \o <<";">> \o rest)
Path(segments) ==
    LET P[i \in 1..Len(segments)] ==
          IF i = 1 THEN segments[1] ELSE P[i - 1] \o <<"/">> \o segments[i]
    IN  P[Len(segments)]

\* intAddr attributes in both forms of the Address Parser
WellFormedAddrs ==
    {Addr(s_In1, Path(<<<<>>, s_Ind, s_stVal>>)),
     Addr(s_In1, Path(<<<<>>, s_Ind, s_q>>)),
     Addr(s_In1, Path(<<<<>>, s_Ind, s_xq>>)),
     Addr(s_In1, Path(<<<<>>, s_Ind, s_mag_q>>)),
     Addr(s_In2, Path(<<<<>>, s_Ind, s_q>>)),
     Addr(s_In1, Path(<<s_GGIO, s_Ind, s_q>>)),
     Addr(s_In1, Path(<<<<>>, s_AmpSv, s_q>>)),
     Addr(s_In1, Path(<<s_Ind, s_stVal>>)),
     Addr(s_In1, Path(<<s_Ind, s_q>>)),
     Addr(s_AmpSv, Path(<<s_TCTR, s_AmpSv, s_instMag_i>>)),
     Addr(s_AmpSv, Path(<<s_TCTR, s_AmpSv, s_q>>))}

\* intAddr attributes that are missing or in neither form
MalformedAddrs ==
    {Null,
     Some(<<>>),
     Some(s_foo),
     Some(s_xq),
     Some(s_q),
     Some(Path(<<s_In1, s_Ind, s_stVal>>)),
     Some(Path(<<s_In1, s_Ind, s_q>>)),
     Addr(s_In1, s_q),
     Addr(s_In1, s_In2 \o <<";">> \o Path(<<s_Ind, s_q>>)),
     Addr(s_In1, Path(<<<<>>, s_GGIO, s_Ind, s_q>>))}

ExtRefPairs ==
    {[fn |-> "extRefMatchSiemens", a |-> ExtRef(x), b |-> ExtRef(y)] :
        x \in WellFormedAddrs \cup MalformedAddrs,
        y \in WellFormedAddrs \cup MalformedAddrs}

FcdaOf(ldInst, prefix, lnClass, lnInst, doName, daName) ==
    [ldInst |-> ldInst, prefix |-> prefix, lnClass |-> lnClass, lnInst |-> lnInst,
     doName |-> doName, daName |-> daName, fc |-> Some(s_ST)]

FcdaPairs ==
    {[fn |-> "isfcdaPairWithQuality",
      a |-> FcdaOf(Some(s_L), pa, Some(s_GGIO), ia, Some(s_Ind), da),
      b |-> FcdaOf(lb, pb, cb, ib, ob, db)] :
        pa \in {Null, Some(s_P)}, ia \in {Null, Some(s_1)},
        da \in {Null, Some(s_stVal), Some(s_q)},
        lb \in {Null, Some(s_L), Some(s_X)}, pb \in {Null, Some(s_P)},
        cb \in {Some(s_GGIO), Some(s_TCTR)}, ib \in {Null, Some(s_1), Some(s_2)},
        ob \in {Some(s_Ind), Some(s_AmpSv)},
        db \in {Null, Some(s_stVal), Some(s_q), Some(s_mag_q), Some(s_xq),
                Some(s_instMag_i)}}

PairInit ==
    /\ AtRest
    /\ args \in ExtRefPairs \cup FcdaPairs
    /\ result = NoCall

ApplyExtRefMatchSiemens ==
    /\ result = NoCall
    /\ args.fn = "extRefMatchSiemens"
    /\ result' = [match |-> extRefMatchSiemens(args.a, args.b)]
    /\ UNCHANGED pluginVars
    /\ UNCHANGED args

ApplyIsfcdaPairWithQuality ==
    /\ result = NoCall
    /\ args.fn = "isfcdaPairWithQuality"
    /\ result' = [match |-> isfcdaPairWithQuality(args.a, args.b)]
    /\ UNCHANGED pluginVars
    /\ UNCHANGED args

PairNext == ApplyExtRefMatchSiemens \/ ApplyIsfcdaPairWithQuality

PairSpec == PairInit /\ [][PairNext]_vars

\* The Address Parser: the record of an intAddr attribute, Null when it is
\* missing or not one semicolon-delimited pair whose remainder has two or
\* three slash-delimited segments
ParseAddr(intAddr) ==
    IF intAddr = Null THEN Null
    ELSE LET parts == Split(Val(intAddr), ";")
         IN  IF Len(parts) # 2 THEN Null
             ELSE LET segs == Split(parts[2], "/")
                  IN  IF Len(segs) = 3
                      THEN Some([name |-> parts[1], logicalNodeClass |-> Some(segs[1]),
                                 dataObjectPath |-> segs[2],
                                 dataAttributePath |-> segs[3]])
                      ELSE IF Len(segs) = 2
                      THEN Some([name |-> parts[1], logicalNodeClass |-> Null,
                                 dataObjectPath |-> segs[1],
                                 dataAttributePath |-> segs[2]])
                      ELSE Null

AddrA == ParseAddr(getAttribute(args.a, "intAddr"))
AddrB == ParseAddr(getAttribute(args.b, "intAddr"))
AppliedExtRefMatch == result # NoCall /\ args.fn = "extRefMatchSiemens"
AppliedFcdaPair == result # NoCall /\ args.fn = "isfcdaPairWithQuality"

\* C17: reference-form match: for references A and B with parseable
\* addresses, extRefMatchSiemens(A, B) is true if and only if name,
\* logical-node class and data-object path are equal and B's data-attribute
\* path equals exactly q.
C17_ReferenceForm ==
    (AppliedExtRefMatch /\ AddrA # Null /\ AddrB # Null)
      => (result.match <=>
            /\ Val(AddrA).name = Val(AddrB).name
            /\ Val(AddrA).logicalNodeClass = Val(AddrB).logicalNodeClass
            /\ Val(AddrA).dataObjectPath = Val(AddrB).dataObjectPath
            /\ Val(AddrB).dataAttributePath = s_q)

\* C18: reference-form match on bad input: when the address of A or of B is
\* missing or unparseable, extRefMatchSiemens(A, B) is false.
C18_ReferenceFormBadInput ==
    (AppliedExtRefMatch /\ (AddrA = Null \/ AddrB = Null)) => ~result.match

\* C19: the Quality-Pair Matcher is not reflexive: isfcdaPairWithQuality(A, A)
\* is false for every descriptor A, extRefMatchSiemens(A, A) for every
\* reference A.
C19_NotReflexive ==
    (result # NoCall /\ args.a = args.b) => ~result.match

\* C20: descriptor-form match: isfcdaPairWithQuality(A, B) is true only if A
\* and B are equal on ldInst, prefix, lnClass, lnInst and doName; given
\* that, exactly when B's daName has q as its final dot-separated segment or
\* equals A's daName.
C20_DescriptorForm ==
    AppliedFcdaPair =>
      LET same == \A attr \in {"ldInst", "prefix", "lnClass", "lnInst", "doName"} :
                     getAttribute(args.a, attr) = getAttribute(args.b, attr)
          daB  == getAttribute(args.b, "daName")
          endsInQ == daB # Null /\ Last(Split(Val(daB), ".")) = s_q
      IN  /\ result.match => same
          /\ same => (result.match <=>
                        (endsInQ \/ daB = getAttribute(args.a, "daName")))

\* Descriptors equal on the five attributes, B's daName mag.q and A's
\* another: a match
C20_Witness ==
    /\ AppliedFcdaPair
    /\ \A attr \in {"ldInst", "prefix", "lnClass", "lnInst", "doName"} :
          getAttribute(args.a, attr) = getAttribute(args.b, attr)
    /\ getAttribute(args.a, "prefix") # Null
    /\ getAttribute(args.b, "daName") = Some(s_mag_q)
    /\ getAttribute(args.a, "daName") = Some(s_stVal)
    /\ result.match

-----------------------------------------------------------------------------
(* isSubscribed applied on its own                                         *)

\* ExtRefs with any of the attributes of a subscription present or absent,
\* lnInst also present and empty
SubscriptionInputs ==
    {[a \in ExtRefAttrs |->
        IF a = "lnInst" THEN inst
        ELSE IF a \in present THEN Some(s_X) ELSE Null] :
       present \in SUBSET {"iedName", "ldInst", "lnClass", "doName", "prefix",
                           "daName", "serviceType", "srcCBName", "intAddr"},
       inst \in {Null, Some(<<>>), Some(s_1)}}

IsSubscribedInit ==
    /\ AtRest
    /\ args \in {[extRefElement |-> e] : e \in SubscriptionInputs}
    /\ result = NoCall

ApplyIsSubscribed ==
    /\ result = NoCall
    /\ result' = [subscribed |-> isSubscribed(args.extRefElement)]
    /\ UNCHANGED pluginVars
    /\ UNCHANGED args

IsSubscribedNext == ApplyIsSubscribed

IsSubscribedSpec == IsSubscribedInit /\ [][IsSubscribedNext]_vars

IdentityAttrs == {"iedName", "ldInst", "lnClass", "lnInst", "doName"}

\* C21: isSubscribed(reference) is true if and only if all five attributes
\* iedName, ldInst, lnClass, lnInst and doName are present; removing any one
\* of them from a subscribed reference makes it false, and no other
\* attribute influences the result.
C21_IsSubscribedIffFive ==
    result # NoCall =>
      /\ result.subscribed <=>
           \A a \in IdentityAttrs : getAttribute(args.extRefElement, a) # Null
      /\ result.subscribed =>
           \A a \in IdentityAttrs :
              ~isSubscribed([args.extRefElement EXCEPT ![a] = Null])
      /\ \A a \in ExtRefAttrs \ IdentityAttrs :
            /\ isSubscribed([args.extRefElement EXCEPT ![a] = Null])
                 = result.subscribed
            /\ isSubscribed([args.extRefElement EXCEPT ![a] = Some(s_d)])
                 = result.subscribed

\* A reference with the five attributes, lnInst empty, and none of the
\* others: subscribed
C21_Witness ==
    /\ result # NoCall
    /\ \A a \in ExtRefAttrs :
          getAttribute(args.extRefElement, a) # Null <=> a \in IdentityAttrs
    /\ getAttribute(args.extRefElement, "lnInst") = Some(<<>>)
    /\ result.subscribed

-----------------------------------------------------------------------------
(* Properties of the notification cycle, continued                         *)

\* The suppress-supervision-check flag an EditIntent carries; scl-lib's
\* unsubscribe takes it as false when no options are passed
FlagOf(intent) == Coalesce(intent.options, FALSE)

\* C22: every unsubscribe EditIntent emitted in a cycle, on the stream path
\* and on the quality-pair path alike, carries a suppress-supervision-check
\* flag equal to whether the element that initiated the cycle's notification
\* had the ignoresupervision attribute, whatever an earlier cycle's was.
C22_UnsubscribeCarriesFlag ==
    CycleDone =>
      \A k \in DOMAIN intents :
         intents[k].kind = "unsubscribe"
           => FlagOf(intents[k]) = event.target.ignoresupervision

\* The notification was initiated by the later binding subscriber element
\* with allowexternalplugins set
FromLaterBinding ==
    /\ event.target.isElement
    /\ event.target.identity = Some(LaterBindingIdentity)
    /\ event.target.allowexternalplugins

\* The edit record is an Update of an ExtRef inside a SIEMENS IED
SiemensExtRefUpdate(edit) ==
    /\ edit.kind = "Update"
    /\ edit.tagName = "ExtRef"
    /\ Doc.manufacturer = Some(s_SIEMENS)

\* C23: a notification produces zero EditIntents when the feature is
\* disabled, or when it was not initiated by the later binding subscriber
\* element with allowexternalplugins set; within a processed notification an
\* edit record that is not an Update of an ExtRef inside a SIEMENS IED
\* produces zero EditIntents.
C23_NoOpConditions ==
    CycleDone =>
      /\ ~enabled => intents = <<>>
      /\ ~FromLaterBinding => intents = <<>>
      /\ \A i \in DOMAIN FlatEdits :
            ~SiemensExtRefUpdate(FlatEdits[i]) => IntentsFor(i) = {}

\* A processed notification of two edit records: the first, not an Update of
\* an ExtRef, produced nothing, the second produced EditIntents
C23_Witness ==
    /\ CycleDone
    /\ enabled
    /\ FromLaterBinding
    /\ Len(FlatEdits) = 2
    /\ ~SiemensExtRefUpdate(FlatEdits[1])
    /\ IntentsFor(1) = {}
    /\ IntentsFor(2) # {}

\* Candidate i of call m of matchFCDAsToExtRefs is in a pair it returned
PairedAt(m, i) == \E k \in DOMAIN m.pairs : m.pairs[k][2] = m.extRefs[i]

\* C24: in matchFCDAsToExtRefs the subscription status must be the same
\* after the first reference for a match: the candidates at index 1 and
\* above (0-based) that are paired all have the same subscription status, so
\* a stream with subscribed and unsubscribed later candidates is never
\* paired in full.
C24_ContinuityRule ==
    CycleDone =>
      \A k \in DOMAIN matched :
         \A i, j \in 2..Len(matched[k].extRefs) :
            (PairedAt(matched[k], i) /\ PairedAt(matched[k], j))
              => matched[k].subscribed[i] = matched[k].subscribed[j]

\* C25: within the handling of one triggering edit no reference is the
\* target of more than one EditIntent: the stream path and the quality-pair
\* path never both emit an intent for the same companion reference.
C25_OneIntentPerTarget ==
    CycleDone =>
      \A k, l \in DOMAIN intents :
         (k # l /\ intents[k].index = intents[l].index)
           => intents[k].sink # intents[l].sink

\* C26: no EditIntent emitted while handling an edit targets the reference
\* whose edit triggered it: the targets are companions, never the triggering
\* reference itself.
C26_NeverTargetsTrigger ==
    CycleDone =>
      \A k \in DOMAIN intents : intents[k].sink # intents[k].trigger

\* C27: the edit events the plugin dispatches while it handles a
\* notification reach the same window listeners, yet no listener accepts
\* them: they neither overwrite the snapshot buffer or the supervision flag
\* of the cycle in progress (every later invocation still compares against
\* the snapshot captured for its edit, every stream-path unsubscribe still
\* carries the initiator's flag) nor start a nested inference (the Resolver
\* is invoked at most once per edit of the notification, in order), and the
\* notification emits boundedly many intents.
C27_NoReentrancy ==
    CycleDone =>
      /\ ~reentered
      /\ \A c \in Range(calls) : c.pre = ExpectedSnapshots[c.index]
      /\ \A k \in DOMAIN intents :
            (intents[k].kind = "unsubscribe" /\ intents[k].path = "sv")
              => intents[k].options = Some(event.target.ignoresupervision)
      /\ Len(calls) <= Len(FlatEdits)
      /\ \A i, j \in DOMAIN calls : i < j => calls[i].index < calls[j].index
      /\ Len(intents) <= Len(calls) * (Len(refs) + 1)

\* A notification of two edits from an initiator with ignoresupervision: the
\* Resolver was invoked for the second after the plugin had dispatched
\* events of its own for the first, and dispatched more
C27_Witness ==
    /\ CycleDone
    /\ event.target.ignoresupervision
    /\ Len(calls) = 2
    /\ IntentsFor(1) # {}
    /\ \E k \in IntentsFor(2) : intents[k].kind = "unsubscribe" /\ intents[k].path = "sv"

\* C28: whenever modifySampledValueExtRefs calls matchFCDAsToExtRefs the
\* descriptor list has exactly as many elements as the classifier count and
\* the candidate list at most that many, so every candidate index has a
\* descriptor at the same index, and pairing is positional: candidate i is
\* only ever paired with descriptor i.
C28_PositionalPairing ==
    CycleDone =>
      \A k \in DOMAIN matched :
         /\ Len(matched[k].fcdas) = svOrderedFCDAs(Doc, matched[k].fcdas[1])
         /\ Len(matched[k].extRefs) <= svOrderedFCDAs(Doc, matched[k].fcdas[1])
         /\ DOMAIN matched[k].extRefs \subseteq DOMAIN matched[k].fcdas
         /\ \A p \in DOMAIN matched[k].pairs : \A i \in DOMAIN matched[k].extRefs :
               matched[k].pairs[p][2] = matched[k].extRefs[i]
                 => matched[k].pairs[p][1] = matched[k].fcdas[i]

\* A call with four descriptors and the first four of five candidates, all
\* paired
C28_Witness ==
    /\ CycleDone
    /\ \E k \in DOMAIN matched :
          /\ Len(matched[k].fcdas) = 4
          /\ Len(matched[k].extRefs) = 4
          /\ Len(matched[k].pairs) = 4
          /\ Len(refs) = 5
          /\ Len(Doc.fcdas) = 5

====
